---- MODULE Spec2Model ----
(***************************************************************************)
(* karaoke.py: the lyric index (parse_lrc, find_current_index), the        *)
(* playback clock (start / offset of karaoke()) and the render loop of     *)
(* karaoke() with its player cleanup.                                      *)
(*                                                                         *)
(* Time is counted in centiseconds (0.01 s): an .lrc tag resolves to       *)
(* centiseconds, the nudge step 0.05 s is 5, the grace 1.0 s is 100.       *)
(* The floats of the program are modelled as exact numbers.                *)
(***************************************************************************)
EXTENDS Integers, Sequences, FiniteSets, TLC

VARIABLES
    pc,          \* position of the program
    raw,         \* the lines of the .lrc file, as parse_lrc reads them
    arg_offset,  \* args.offset, the --offset option
    lyrics,      \* lyrics: List[Line]
    player,      \* the ffplay process: "none", "running", "exited"
    clk,         \* time.perf_counter()
    start,       \* start, the clock anchor
    offset,      \* offset, the displayed offset
    now,         \* now, the elapsed time sampled by the tick
    active_idx,  \* active_idx
    view,        \* what the last draw put on the screen
    ch,          \* the key the last getch returned
    ups,         \* number of KEY_UP events consumed so far
    downs,       \* number of KEY_DOWN events consumed so far
    t0,          \* perf_counter() when the clock was created
    start0,      \* start as the clock was created with
    calls,       \* calls made on the player during cleanup
    err          \* how the session ended abnormally, "" if it did not

vars == <<pc, raw, arg_offset, lyrics, player, clk, start, offset, now,
          active_idx, view, ch, ups, downs, t0, start0, calls, err>>

----------------------------------------------------------------------------
(* Bounds of the model *)

MaxLines == 3        \* lines of a file in the lyric-index specification
MaxClk == 230        \* perf_counter() values explored by the session
Boot == 15           \* perf_counter() when the session begins
MaxNudges == 5       \* nudge keys pressed in one session

(* Program constants, in centiseconds where they are times *)

NUDGE == 5           \* offset += 0.05 / start -= 0.05
GRACE == 100         \* now > last_stamp + 1.0
SLEEP == 2           \* time.sleep(0.02)
GETCH_TIMEOUT == 5   \* stdscr.timeout(50)
KILL_DELAY == 20     \* time.sleep(0.2)
KEY_Q == 113         \* ord('q')
KEY_ESC == 27
KEY_UP == 259        \* curses.KEY_UP
KEY_DOWN == 258      \* curses.KEY_DOWN
KEY_X == 120         \* ord('x'), a key the program does not handle
NO_KEY == -1         \* getch() with no key pending
INTERRUPT == -2      \* getch() raising KeyboardInterrupt (not a key code)

----------------------------------------------------------------------------
(* The .lrc input.  A tag is the three groups of one TIMESTAMP match: mm   *)
(* and ss, two digits each, and cc, the fraction's digits (none, 1 or 2).  *)
(* A raw line is its tags in order and the text left when they are cut.    *)

Tag(mm, ss, cc) == [mm |-> mm, ss |-> ss, cc |-> cc]

RawLine(stamps, text) == [stamps |-> stamps, text |-> text]

(* "[ti:demo]", "[00:00.5]la", "[00:00.50]na", "[00:01]la",                *)
(* "[00:01][00:00.05]na", "[00:01.2]hey"                                   *)
RawLines ==
    { RawLine(<<>>, "demo"),
      RawLine(<<Tag(0, 0, <<5>>)>>, "la"),
      RawLine(<<Tag(0, 0, <<5, 0>>)>>, "na"),
      RawLine(<<Tag(0, 1, <<>>)>>, "la"),
      RawLine(<<Tag(0, 1, <<>>), Tag(0, 0, <<0, 5>>)>>, "na"),
      RawLine(<<Tag(0, 1, <<2>>)>>, "hey") }

SeqsUpTo(S, n) == UNION { [1..k -> S] : k \in 0..n }

Files == SeqsUpTo(RawLines, MaxLines)

Line(t, text) == [t |-> t, text |-> text]

(* int(cc) / 10.0 for one digit, int(cc[:2]) / 100.0 otherwise; cc is "0"  *)
(* when the tag has no fraction.  In centiseconds.                         *)
Frac(cc) ==
    LET c == IF cc = <<>> THEN <<0>> ELSE cc
    IN  IF Len(c) = 1 THEN c[1] * 10 ELSE c[1] * 10 + c[2]

TagTime(m) == (m.mm * 60 + m.ss) * 100 + Frac(m.cc)

(* for m in stamps: lines.append(Line(t, text)) *)
RECURSIVE LinesOfStamps(_, _)
LinesOfStamps(stamps, text) ==
    IF stamps = <<>> THEN <<>>
    ELSE <<Line(TagTime(Head(stamps)), text)>> \o LinesOfStamps(Tail(stamps), text)

(* for raw in f: lines without a tag are skipped *)
RECURSIVE Collect(_)
Collect(file) ==
    IF file = <<>> THEN <<>>
    ELSE LinesOfStamps(Head(file).stamps, Head(file).text) \o Collect(Tail(file))

(* list.sort(key=lambda x: x.t) is stable: x goes behind every entry whose *)
(* key is not greater.                                                     *)
InsertByT(s, x) ==
    LET k == Cardinality({ i \in 1..Len(s) : s[i].t <= x.t })
    IN  SubSeq(s, 1, k) \o <<x>> \o SubSeq(s, k + 1, Len(s))

RECURSIVE SortByT(_)
SortByT(s) ==
    IF s = <<>> THEN <<>>
    ELSE InsertByT(SortByT(SubSeq(s, 1, Len(s) - 1)), s[Len(s)])

(* the list left as collected *)
Unsorted(s) == s

(* lines.sort(key=lambda x: x.t) *)
SortLines(s) == SortByT(s)

parse_lrc(file) == SortLines(Collect(file))

----------------------------------------------------------------------------
(* find_current_index: indices are the program's, from 0; lyrics[mid] is   *)
(* the TLA+ element mid + 1.                                               *)

DueStrict(lt, t) == lt < t

DueFlipped(lt, t) == lt >= t

(* lyrics[mid].t <= t *)
Due(lt, t) == lt <= t

RECURSIVE Search(_, _, _, _, _)
Search(ly, t, lo, hi, ans) ==
    IF lo <= hi
    THEN LET mid == (lo + hi) \div 2
         IN  IF Due(ly[mid + 1].t, t)
             THEN Search(ly, t, mid + 1, hi, mid)
             ELSE Search(ly, t, lo, mid - 1, ans)
    ELSE ans

find_current_index(ly, t) == Search(ly, t, 0, Len(ly) - 1, -1)

----------------------------------------------------------------------------
(* The session: main() calls karaoke(scr, audio, lrc, args.offset, ...).   *)

(* The files the sessions are run on. *)
SessionFiles ==
    { <<>>,
      <<RawLine(<<>>, "demo")>>,
      <<RawLine(<<Tag(0, 0, <<5>>)>>, "la")>>,
      <<RawLine(<<Tag(0, 1, <<>>), Tag(0, 0, <<0, 5>>)>>, "na"),
        RawLine(<<Tag(0, 0, <<5, 0>>)>>, "na"),
        RawLine(<<Tag(0, 0, <<5>>)>>, "la")>> }

(* Values of --offset, in centiseconds. *)
Offsets == {-20, 0, 30}

(* What one getch() can deliver. *)
KeyEvents == {NO_KEY, KEY_Q, KEY_ESC, KEY_UP, KEY_DOWN, KEY_X, INTERRUPT}

(* Real time one tick can take.  It is at least the sleep, SLEEP, and     *)
(* SLEEP + GETCH_TIMEOUT plus the drawing when no key is pending; a tick   *)
(* can stall for longer.  The sessions take ticks of 0.05 s and of 0.5 s.  *)
TickTimes == {GETCH_TIMEOUT, 10 * GETCH_TIMEOUT}

NoView == [offset |-> 0, lines |-> <<>>]

Init ==
    /\ pc = "parse"
    /\ raw \in SessionFiles
    /\ arg_offset \in Offsets
    /\ lyrics = <<>>
    /\ player = "none"
    /\ clk = Boot
    /\ start = 0
    /\ offset = arg_offset
    /\ now = 0
    /\ active_idx = -1
    /\ view = NoView
    /\ ch = NO_KEY
    /\ ups = 0
    /\ downs = 0
    /\ t0 = 0
    /\ start0 = 0
    /\ calls = <<>>
    /\ err = ""

NeverEmpty(ly) == FALSE

(* not lyrics *)
IsEmptyTrack(ly) == ly = <<>>

(* lyrics = parse_lrc(lrc); if not lyrics: raise SystemExit(...) *)
Parse ==
    /\ pc = "parse"
    /\ lyrics' = parse_lrc(raw)
    /\ IF IsEmptyTrack(lyrics')
       THEN pc' = "failed" /\ err' = "No timestamped lyrics found in .lrc"
       ELSE pc' = "launch" /\ err' = err
    /\ UNCHANGED <<raw, arg_offset, player, clk, start, offset, now, active_idx,
                   view, ch, ups, downs, t0, start0, calls>>

(* player = subprocess.Popen(cmd, ...) *)
Launch ==
    /\ pc = "launch"
    /\ \/ player' = "running" /\ pc' = "clock" /\ err' = err
       \/ player' = player /\ pc' = "failed" /\ err' = "ffplay not found"
    /\ UNCHANGED <<raw, arg_offset, lyrics, clk, start, offset, now, active_idx, view,
                   ch, ups, downs, t0, start0, calls>>

ClockStartMinus(c, o) == c - o

(* start = time.perf_counter() + offset *)
ClockStart(c, o) == c + o

NewClock ==
    /\ pc = "clock"
    /\ start' = ClockStart(clk, offset)
    /\ t0' = clk
    /\ start0' = start'
    /\ active_idx' = -1
    /\ pc' = "sample"
    /\ UNCHANGED <<raw, arg_offset, lyrics, player, clk, offset, now, view, ch,
                   ups, downs, calls, err>>

(* time.perf_counter() - start *)
Elapsed == clk - start

(* now = ...; idx = find_current_index(lyrics, now); active_idx = idx *)
Sample ==
    /\ pc = "sample"
    /\ now' = Elapsed
    /\ active_idx' = find_current_index(lyrics, now')
    /\ pc' = "draw"
    /\ UNCHANGED <<raw, arg_offset, lyrics, player, clk, start, offset, view, ch,
                   ups, downs, t0, start0, calls, err>>

Prefix(rel) == IF rel = 0 THEN "> " ELSE IF rel \in {-1, 1} THEN ". " ELSE "  "

InTrackAfterFirst(j, n) == 0 < j /\ j < n

(* 0 <= j < len(lyrics) *)
InTrack(j, n) == 0 <= j /\ j < n

(* for rel in (-2, -1, 0, 1, 2): j = active_idx + rel; if 0 <= j < len(lyrics) *)
RECURSIVE LinesToShow(_, _, _)
LinesToShow(ly, idx, rel) ==
    IF rel > 2 THEN <<>>
    ELSE LET j == idx + rel
         IN  (IF InTrack(j, Len(ly))
              THEN <<[prefix |-> Prefix(rel), text |-> ly[j + 1].text]>>
              ELSE <<>>) \o LinesToShow(ly, idx, rel + 1)

ViewOfFirstOffset(o, ly, idx) ==
    [offset |-> arg_offset, lines |-> LinesToShow(ly, idx, -2)]

(* the title, formatted with offset, and lines_to_show *)
ViewOf(o, ly, idx) == [offset |-> o, lines |-> LinesToShow(ly, idx, -2)]

(* stdscr.erase() ... stdscr.refresh() *)
Draw ==
    /\ pc = "draw"
    /\ view' = ViewOf(offset, lyrics, active_idx)
    /\ pc' = "input"
    /\ UNCHANGED <<raw, arg_offset, lyrics, player, clk, start, offset, now,
                   active_idx, ch, ups, downs, t0, start0, calls, err>>

(* except KeyboardInterrupt: ch = ord('q') *)
KeyOf(ev) == IF ev = INTERRUPT THEN KEY_Q ELSE ev

IsQuitOnlyQ(c) == c = KEY_Q

IsQuitOtherKeys(c) == c \notin {KEY_UP, KEY_DOWN}

(* ch in (ord('q'), 27) *)
IsQuit(c) == c \in {KEY_Q, KEY_ESC}

NudgeOffsetUpOnly(o, c) ==
    IF c \in {KEY_UP, KEY_DOWN} THEN o + NUDGE ELSE o

NudgeStartAnyKey(s, c) ==
    IF c = KEY_UP THEN s - NUDGE ELSE IF c = NO_KEY THEN s ELSE s + NUDGE

NudgeStartEveryTick(s, c) ==
    IF c = KEY_UP THEN s - NUDGE ELSE s + NUDGE

NudgeStartSameWay(s, c) ==
    IF c = KEY_UP THEN s + NUDGE ELSE IF c = KEY_DOWN THEN s - NUDGE ELSE s

(* offset += 0.05 / offset -= 0.05 *)
NudgeOffset(o, c) ==
    IF c = KEY_UP THEN o + NUDGE ELSE IF c = KEY_DOWN THEN o - NUDGE ELSE o

(* start -= 0.05 / start += 0.05 *)
NudgeStart(s, c) ==
    IF c = KEY_UP THEN s - NUDGE ELSE IF c = KEY_DOWN THEN s + NUDGE ELSE s

(* ch = stdscr.getch() and the key handling *)
Input ==
    /\ pc = "input"
    /\ \E ev \in KeyEvents :
          /\ KeyOf(ev) \in {KEY_UP, KEY_DOWN} => ups + downs < MaxNudges
          /\ ch' = KeyOf(ev)
          /\ IF ch' # NO_KEY /\ IsQuit(ch')
             THEN /\ pc' = "fin_poll"
                  /\ UNCHANGED <<offset, start>>
             ELSE /\ pc' = "poll"
                  /\ offset' = NudgeOffset(offset, ch')
                  /\ start' = NudgeStart(start, ch')
          /\ ups' = IF ch' = KEY_UP /\ pc' = "poll" THEN ups + 1 ELSE ups
          /\ downs' = IF ch' = KEY_DOWN /\ pc' = "poll" THEN downs + 1 ELSE downs
    /\ UNCHANGED <<raw, arg_offset, lyrics, player, clk, now, active_idx, view,
                   t0, start0, calls, err>>

(* last_stamp = lyrics[-1].t *)
last_stamp == lyrics[Len(lyrics)].t

ShouldExitAfterTail(p, n, last) == p # "running" /\ n > last + 5 * GRACE

(* player.poll() is not None and now > last_stamp + 1.0 *)
ShouldExit(p, n, last) == p # "running" /\ n > last + GRACE

Poll ==
    /\ pc = "poll"
    /\ pc' = IF ShouldExit(player, now, last_stamp) THEN "fin_poll" ELSE "sleep"
    /\ UNCHANGED <<raw, arg_offset, lyrics, player, clk, start, offset, now,
                   active_idx, view, ch, ups, downs, t0, start0, calls, err>>

(* time.sleep(0.02), and the rest of the real time of the tick *)
Sleep ==
    /\ pc = "sleep"
    /\ \E dt \in TickTimes :
          /\ clk + dt <= MaxClk
          /\ clk' = clk + dt
    /\ pc' = "sample"
    /\ UNCHANGED <<raw, arg_offset, lyrics, player, start, offset, now, active_idx,
                   view, ch, ups, downs, t0, start0, calls, err>>

(* An exception raised inside the while loop, outside the getch try block:  *)
(* the finally clause runs and the exception propagates.                    *)
LoopRaises ==
    /\ pc \in {"draw", "sleep"}
    /\ pc' = "fin_poll"
    /\ err' = "exception"
    /\ UNCHANGED <<raw, arg_offset, lyrics, player, clk, start, offset, now,
                   active_idx, view, ch, ups, downs, t0, start0, calls>>

FinPollAlways ==
    /\ pc = "fin_poll"
    /\ pc' = "terminate"
    /\ UNCHANGED <<raw, arg_offset, lyrics, player, clk, start, offset, now,
                   active_idx, view, ch, ups, downs, t0, start0, calls, err>>

FinPollInLoop ==
    /\ pc = "fin_poll"
    /\ pc' = IF player = "running" THEN "terminate" ELSE "sample"
    /\ UNCHANGED <<raw, arg_offset, lyrics, player, clk, start, offset, now,
                   active_idx, view, ch, ups, downs, t0, start0, calls, err>>

(* finally: if player.poll() is None: *)
FinPoll ==
    /\ pc = "fin_poll"
    /\ pc' = IF player = "running" THEN "terminate" ELSE "stopped"
    /\ UNCHANGED <<raw, arg_offset, lyrics, player, clk, start, offset, now,
                   active_idx, view, ch, ups, downs, t0, start0, calls, err>>

(* with contextlib.suppress(Exception): player.terminate() *)
Terminate ==
    /\ pc = "terminate"
    /\ calls' = Append(calls, "terminate")
    /\ pc' \in {"fin_sleep", "stopped"}
    /\ UNCHANGED <<raw, arg_offset, lyrics, player, clk, start, offset, now,
                   active_idx, view, ch, ups, downs, t0, start0, err>>

(* time.sleep(0.2) *)
FinSleep ==
    /\ pc = "fin_sleep"
    /\ clk' = clk + KILL_DELAY
    /\ pc' = "kill"
    /\ UNCHANGED <<raw, arg_offset, lyrics, player, start, offset, now, active_idx,
                   view, ch, ups, downs, t0, start0, calls, err>>

KillIfAlive ==
    /\ pc = "kill"
    /\ calls' = IF player = "running" THEN Append(calls, "kill") ELSE calls
    /\ player' \in {"exited", player}
    /\ pc' = "stopped"
    /\ UNCHANGED <<raw, arg_offset, lyrics, clk, start, offset, now, active_idx,
                   view, ch, ups, downs, t0, start0, err>>

(* player.kill() *)
Kill ==
    /\ pc = "kill"
    /\ calls' = Append(calls, "kill")
    /\ player' \in {"exited", player}
    /\ pc' = "stopped"
    /\ UNCHANGED <<raw, arg_offset, lyrics, clk, start, offset, now, active_idx,
                   view, ch, ups, downs, t0, start0, err>>

(* ffplay ends by itself (-autoexit), or after the terminate signal *)
PlayerExits ==
    /\ player = "running"
    /\ pc \notin {"stopped", "failed"}
    /\ player' = "exited"
    /\ UNCHANGED <<pc, raw, arg_offset, lyrics, clk, start, offset, now, active_idx,
                   view, ch, ups, downs, t0, start0, calls, err>>

Next ==
    \/ Parse
    \/ Launch
    \/ NewClock
    \/ Sample
    \/ Draw
    \/ Input
    \/ Poll
    \/ Sleep
    \/ LoopRaises
    \/ FinPoll
    \/ Terminate
    \/ FinSleep
    \/ Kill
    \/ PlayerExits

Spec == Init /\ [][Next]_vars

(* The states of the render loop *)
LoopState ==
    IF pc \in {"sample", "draw", "input", "poll", "sleep"} THEN "Running"
    ELSE IF pc \in {"fin_poll", "terminate", "fin_sleep", "kill"} THEN "Stopping"
    ELSE IF pc = "stopped" THEN "Stopped"
    ELSE IF pc = "failed" THEN "Failed"
    ELSE "Starting"

----------------------------------------------------------------------------
(* The lyric index alone: parse_lrc on every file of Files, then            *)
(* find_current_index at a time of QueryTimes: every timestamp a tag of     *)
(* RawLines resolves to, the centisecond before it and the one after it,    *)
(* and the lines to show around the index found.                            *)

AllStamps == { TagTime(l.stamps[i]) : <<l, i>> \in { x \in RawLines \X (1..2) : x[2] <= Len(x[1].stamps) } }

QueryTimes == UNION { {t - 1, t, t + 1} : t \in AllStamps }

InitIndex ==
    /\ pc = "lib_parse"
    /\ raw \in Files
    /\ arg_offset = 0
    /\ lyrics = <<>>
    /\ player = "none"
    /\ clk = 0
    /\ start = 0
    /\ offset = 0
    /\ now = 0
    /\ active_idx = -1
    /\ view = NoView
    /\ ch = NO_KEY
    /\ ups = 0
    /\ downs = 0
    /\ t0 = 0
    /\ start0 = 0
    /\ calls = <<>>
    /\ err = ""

LibParse ==
    /\ pc = "lib_parse"
    /\ lyrics' = parse_lrc(raw)
    /\ pc' = "lib_ready"
    /\ UNCHANGED <<raw, arg_offset, player, clk, start, offset, now, active_idx,
                   view, ch, ups, downs, t0, start0, calls, err>>

LibLookup ==
    /\ pc = "lib_ready"
    /\ lyrics # <<>>
    /\ \E t \in QueryTimes :
          /\ now' = t
          /\ active_idx' = find_current_index(lyrics, t)
    /\ view' = ViewOf(offset, lyrics, active_idx')
    /\ pc' = "lib_result"
    /\ UNCHANGED <<raw, arg_offset, lyrics, player, clk, start, offset, ch,
                   ups, downs, t0, start0, calls, err>>

NextIndex ==
    \/ LibParse
    \/ LibLookup

SpecIndex == InitIndex /\ [][NextIndex]_vars

----------------------------------------------------------------------------
(* Properties *)

IsSortedByT(s) == \A i \in 1..Len(s) : \A j \in i..Len(s) : s[i].t <= s[j].t

(* the program's indices of the entries of ly that are due at t *)
DueIndices(ly, t) == { i \in 0..(Len(ly) - 1) : ly[i + 1].t <= t }

Largest(S) == CHOOSE x \in S : \A y \in S : y <= x

Rightmost(ly, t) == IF DueIndices(ly, t) = {} THEN -1 ELSE Largest(DueIndices(ly, t))

(* C1: on a non-empty track sorted by timestamp, find_current_index(track, *)
(* t) is the largest index whose timestamp is <= t, and -1 when t is       *)
(* before the first timestamp; among entries that share the timestamp      *)
(* reached by t it is the highest-indexed one.                             *)
C1_Rightmost ==
    pc = "lib_result" =>
        /\ IsSortedByT(lyrics)
        /\ active_idx = Rightmost(lyrics, now)
        /\ (now < lyrics[1].t) => active_idx = -1
        /\ \A i \in 1..Len(lyrics) : lyrics[i].t = now => active_idx >= i - 1

C1_Witness ==
    /\ pc = "lib_result"
    /\ Len(lyrics) >= 3
    /\ \E i \in 1..Len(lyrics) : \E j \in (i + 1)..Len(lyrics) :
          /\ lyrics[i].t = now
          /\ lyrics[j].t = now
          /\ active_idx = j - 1
          /\ j < Len(lyrics)

(* C2: for a fixed track find_current_index is monotonic non-decreasing in *)
(* t: the index looked up at `now` is not below the index at any earlier   *)
(* time and not above the index at any later time.                         *)
C2_Monotonic ==
    pc = "lib_result" =>
        \A t \in QueryTimes :
            /\ t <= now => find_current_index(lyrics, t) <= active_idx
            /\ t >= now => find_current_index(lyrics, t) >= active_idx

C2_Witness ==
    /\ pc = "lib_result"
    /\ \E t1 \in QueryTimes : \E t2 \in QueryTimes :
          /\ t1 < now /\ now < t2
          /\ find_current_index(lyrics, t1) < active_idx
          /\ active_idx < find_current_index(lyrics, t2)

(* the entries of s with timestamp v, in their order in s *)
WithTime(s, v) == SelectSeq(s, LAMBDA x : x.t = v)

(* C3: the track parse_lrc returns is sorted ascending by timestamp        *)
(* whatever the order of the tagged lines, entries with equal timestamps   *)
(* keep their parse order, and the render loop never changes the track: in *)
(* every state after the parse the track is that stable sorted list.       *)
C3_SortedStable ==
    pc # "parse" =>
        /\ IsSortedByT(lyrics)
        /\ Len(lyrics) = Len(Collect(raw))
        /\ \A i \in 1..Len(lyrics) :
              WithTime(lyrics, lyrics[i].t) = WithTime(Collect(raw), lyrics[i].t)

C3_Witness ==
    /\ LoopState = "Running"
    /\ ups + downs > 0
    /\ ~IsSortedByT(Collect(raw))
    /\ \E i \in 1..(Len(lyrics) - 1) :
          /\ lyrics[i].t = lyrics[i + 1].t
          /\ lyrics[i].text # lyrics[i + 1].text

(* a nudge key was consumed by the step *)
NudgeStep == pc = "input" /\ pc' = "poll" /\ ch' \in {KEY_UP, KEY_DOWN}

(* C4: a nudge by d makes the elapsed time, read at the same real instant, *)
(* larger by exactly d, whatever real time passed since the clock was      *)
(* created; d is +0.05 s for KEY_UP and -0.05 s for KEY_DOWN.              *)
C4_NudgeShiftsElapsed ==
    [][NudgeStep =>
          /\ clk' = clk
          /\ offset' - offset = (IF ch' = KEY_UP THEN NUDGE ELSE -NUDGE)
          /\ (clk' - start') = (clk - start) + (offset' - offset)]_vars

C4_Witness ==
    /\ pc = "poll"
    /\ ch = KEY_UP
    /\ clk - t0 >= 10 * NUDGE
    /\ downs > 0
    /\ Elapsed = now + NUDGE

(* C5: after any sequence of nudges the displayed offset is the initial    *)
(* offset plus the sum of the nudges applied, and the elapsed time is its  *)
(* un-nudged trajectory shifted by that sum; five nudges up give +0.25 s.  *)
C5_CumulativeOffset ==
    LoopState \in {"Running", "Stopping", "Stopped"} =>
        /\ offset = arg_offset + NUDGE * (ups - downs)
        /\ Elapsed = (clk - start0) + NUDGE * (ups - downs)

C5_Witness ==
    /\ LoopState = "Running"
    /\ ups = 5
    /\ downs = 0
    /\ offset = arg_offset + 25
    /\ Elapsed = (clk - start0) + 25

(* the first tick samples the clock at the instant the clock was created *)
FirstSample == pc = "sample" /\ clk = t0

(* C6 as stated: the clock is created with anchor = now - initialOffset,   *)
(* so the elapsed time read with no real time passed is the initial        *)
(* offset.                                                                 *)
C6_AsStated == FirstSample => (start = clk - arg_offset /\ Elapsed = arg_offset)

(* C6, amended: the clock is created with anchor = now + initialOffset, so *)
(* the elapsed time read with no real time passed is minus the initial     *)
(* offset.                                                                 *)
C6_AnchorPlusOffset ==
    FirstSample => (start = clk + arg_offset /\ Elapsed = -arg_offset)

C6_Witness == FirstSample /\ arg_offset = 30 /\ Elapsed = -30

(* C7: a positive nudge delays the lyrics: at the same real instant the    *)
(* active index after a KEY_UP nudge is never greater than the active      *)
(* index without it.                                                       *)
C7_PositiveNudgeDelays ==
    [][(NudgeStep /\ ch' = KEY_UP) =>
          find_current_index(lyrics, clk' - start')
              <= find_current_index(lyrics, clk - start)]_vars

(* C8: the loop only moves Running -> Stopping -> Stopped; once it has     *)
(* left Running no tick samples the clock, looks up the index, draws or    *)
(* reads a key, and nothing changes once it is Stopped.                    *)
C8_LoopStates ==
    [][/\ LoopState = "Running" => LoopState' \in {"Running", "Stopping"}
       /\ LoopState = "Stopping" =>
             /\ LoopState' \in {"Stopping", "Stopped"}
             /\ UNCHANGED <<now, active_idx, view, ch, start, offset>>
       /\ LoopState = "Stopped" => UNCHANGED vars]_vars

C8_Witness ==
    /\ LoopState = "Stopped"
    /\ view # NoView
    /\ ch = KEY_X
    /\ calls = <<"terminate", "kill">>

(* C9: a quit (q, ESC, or KeyboardInterrupt while polling) consumed in a   *)
(* tick takes the loop to Stopping without changing the anchor or the      *)
(* displayed offset; from then on the loop is never Running again, and the *)
(* next step of the program is the player cleanup.                         *)
C9_Quit ==
    [][/\ (pc = "input" /\ pc' # "input" /\ ch' \in {KEY_Q, KEY_ESC}) =>
             /\ pc' = "fin_poll"
             /\ LoopState' = "Stopping"
             /\ start' = start
             /\ offset' = offset
       /\ (pc # "input" /\ ch \in {KEY_Q, KEY_ESC}) =>
             /\ LoopState' \in {"Stopping", "Stopped"}
             /\ (pc = "fin_poll" /\ pc' # pc) =>
                   pc' = (IF player = "running" THEN "terminate" ELSE "stopped")]_vars

C9_Witness ==
    /\ pc = "stopped"
    /\ ch = KEY_ESC
    /\ ups > 0
    /\ calls = <<"terminate", "kill">>
    /\ player = "exited"

(* C10: a key that is neither quit nor a nudge, and a poll with no key     *)
(* pending, change neither the anchor nor the displayed offset and leave   *)
(* the loop Running.                                                       *)
C10_OtherKeysNoOp ==
    [][(pc = "input" /\ pc' # "input"
          /\ ch' \notin {KEY_Q, KEY_ESC, KEY_UP, KEY_DOWN}) =>
             /\ start' = start
             /\ offset' = offset
             /\ pc' = "poll"
             /\ LoopState' = "Running"]_vars

C10_Witness ==
    /\ pc = "poll"
    /\ ch = KEY_X
    /\ ups > 0
    /\ offset # arg_offset

(* C11: when the lyrics file yields no timestamped line the session fails  *)
(* fast: no tick of the render loop runs and the player is never launched. *)
C11_EmptyFailsFast ==
    (Collect(raw) = <<>> /\ pc # "parse") =>
        /\ pc = "failed"
        /\ err = "No timestamped lyrics found in .lrc"
        /\ player = "none"
        /\ view = NoView
        /\ calls = <<>>
        /\ ch = NO_KEY

C11_Witness ==
    /\ pc = "failed"
    /\ raw = <<RawLine(<<>>, "demo")>>
    /\ player = "none"
    /\ view = NoView

(* a step of the finally block is enabled *)
CleanupCanStep == ENABLED (FinPoll \/ Terminate \/ FinSleep \/ Kill)

(* C12: the cleanup never raises and is idempotent: on a player that has   *)
(* already exited (as after a first cleanup) it makes no call and changes  *)
(* nothing; a failing terminate or kill is swallowed, and the cleanup      *)
(* always goes on to Stopped.                                              *)
C12_CleanupIdempotent ==
    /\ [](LoopState = "Stopping" => CleanupCanStep)
    /\ [][/\ (pc = "fin_poll" /\ player # "running" /\ pc' # pc) =>
                (pc' = "stopped" /\ UNCHANGED <<calls, player, err>>)
          /\ LoopState = "Stopping" =>
                (err' = err /\ LoopState' \in {"Stopping", "Stopped"})]_vars

C12_Witness ==
    /\ pc = "stopped"
    /\ player = "exited"
    /\ calls = <<>>
    /\ ch = KEY_Q
    /\ err = ""

(* the tick's termination check is decided by the step *)
PollStep == pc = "poll" /\ pc' # pc

(* C13: in a tick whose sampled elapsed time has passed last_stamp + 1.0 s *)
(* and in which the player is no longer running, the loop goes to Stopping *)
(* in that tick, whatever key (none, unhandled, up, down) it consumed.     *)
C13_TerminationCondition ==
    [][(PollStep /\ player # "running" /\ now > last_stamp + GRACE) =>
          (pc' = "fin_poll" /\ LoopState' = "Stopping")]_vars

C13_Witness ==
    /\ pc = "fin_poll"
    /\ err = ""
    /\ ch = KEY_DOWN
    /\ player = "exited"
    /\ now > last_stamp + GRACE

(* the loop is left by a break, not by an exception *)
BreakStep == LoopState = "Running" /\ LoopState' = "Stopping" /\ err' = ""

(* C14 as stated: a quit or a satisfied termination condition takes effect *)
(* only at the top of the next tick: the loop is left from the top of a    *)
(* tick, after the remaining steps of the tick that observed it.           *)
C14_AsStated == [][BreakStep => pc = "sample"]_vars

(* C14, amended: a quit or a satisfied termination condition takes effect  *)
(* at once, in the tick that observes it: a quit key breaks the loop right *)
(* after it is read, skipping that tick's termination check and sleep, and *)
(* the termination condition breaks it right after the check, skipping the *)
(* sleep; the loop is left by a break at these two points only.            *)
C14_ImmediateBreak ==
    [][/\ BreakStep =>
             \/ pc = "input" /\ ch' \in {KEY_Q, KEY_ESC}
             \/ pc = "poll" /\ player # "running" /\ now > last_stamp + GRACE
       /\ (pc = "input" /\ pc' # pc /\ ch' \in {KEY_Q, KEY_ESC}) => pc' = "fin_poll"
       /\ (pc = "poll" /\ pc' # pc /\ player # "running" /\ now > last_stamp + GRACE)
             => pc' = "fin_poll"]_vars

C14_Witness ==
    /\ pc = "fin_poll"
    /\ err = ""
    /\ ch = KEY_ESC
    /\ player = "exited"
    /\ now > last_stamp + GRACE

(* the change of the offset made by the key c *)
Delta(c) == IF c = KEY_UP THEN NUDGE ELSE IF c = KEY_DOWN THEN -NUDGE ELSE 0

(* C15 as stated: input is consumed before the view is emitted, so the     *)
(* offset shown in a tick includes the nudge consumed in that tick.        *)
C15_AsStated == pc \in {"poll", "sleep"} => view.offset = offset

(* C15, amended: in each tick the view is emitted before the input is      *)
(* consumed: the offset shown in a tick is the offset before the nudge of  *)
(* that tick, which is shown by the draw of the next tick.                 *)
C15_DrawBeforeInput ==
    /\ pc = "input" => view.offset = offset
    /\ pc \in {"poll", "sleep"} => view.offset = offset - Delta(ch)

C15_Witness ==
    /\ pc = "sleep"
    /\ ch = KEY_UP
    /\ view.offset = offset - NUDGE
    /\ view.offset # arg_offset

(* C16 as stated: the forced kill is issued only if the player is still    *)
(* alive after the grace delay.                                            *)
C16_AsStated == [][(pc = "kill" /\ pc' = "stopped") => player = "running"]_vars

(* C16, amended: on entering Stopping with the player running the loop     *)
(* calls terminate, waits the 0.2 s and then calls kill whether or not the *)
(* player is still alive; the wait and the kill are skipped when terminate *)
(* raises, nothing is called when the player has already exited, and       *)
(* Stopped is reached after this cleanup.                                  *)
C16_TerminateWaitKill ==
    /\ [](pc = "stopped" =>
             calls \in {<<>>, <<"terminate">>, <<"terminate", "kill">>})
    /\ [][/\ (pc = "fin_poll" /\ pc' # pc) =>
                /\ pc' = (IF player = "running" THEN "terminate" ELSE "stopped")
                /\ calls' = calls
          /\ (pc = "terminate" /\ pc' # pc) =>
                /\ calls' = Append(calls, "terminate")
                /\ pc' \in {"fin_sleep", "stopped"}
          /\ (pc = "fin_sleep" /\ pc' # pc) =>
                /\ pc' = "kill"
                /\ clk' = clk + KILL_DELAY
                /\ calls' = calls
          /\ (pc = "kill" /\ pc' # pc) =>
                /\ pc' = "stopped"
                /\ calls' = Append(calls, "kill")]_vars

C16_Witness ==
    /\ pc = "kill"
    /\ player = "exited"
    /\ calls = <<"terminate">>
    /\ ENABLED Kill

(* C17: only a nudge changes the anchor once the clock is created: across  *)
(* any other step (no key, unhandled key, quit, player exit, drawing,      *)
(* sleep, cleanup) the elapsed time advances by exactly the real time.     *)
C17_AnchorOnlyByNudge ==
    [][(LoopState \in {"Running", "Stopping", "Stopped"} /\ ~NudgeStep) =>
          /\ start' = start
          /\ (clk' - start') - (clk - start) = clk' - clk]_vars

C17_Witness ==
    /\ pc = "sample"
    /\ ch = KEY_X
    /\ start = start0
    /\ clk - t0 = 11 * GETCH_TIMEOUT
    /\ Elapsed - now = 10 * GETCH_TIMEOUT

Smallest(S) == CHOOSE x \in S : \A y \in S : x <= y

(* the mark of the entry rel places from the active one *)
MarkAt(rel) == IF rel = 0 THEN "> " ELSE IF rel = -1 \/ rel = 1 THEN ". " ELSE "  "

(* C18: the visible window is exactly the track entries at the indices     *)
(* idx-2 .. idx+2 that lie in [0, n-1], in ascending order, at most 5 and  *)
(* without padding; the entry marked current is the one at idx and exists  *)
(* exactly when idx >= 0, the entries at idx-1 and idx+1 carry the         *)
(* previous/next mark.                                                     *)
C18_VisibleWindow ==
    pc = "lib_result" =>
        LET n == Len(lyrics)
            J == { j \in (active_idx - 2)..(active_idx + 2) : 0 <= j /\ j <= n - 1 }
            w == view.lines
        IN  /\ Len(w) = Cardinality(J)
            /\ Len(w) <= 5
            /\ \A k \in 1..Len(w) :
                  LET j == Smallest(J) + k - 1
                  IN  /\ j \in J
                      /\ w[k].text = lyrics[j + 1].text
                      /\ w[k].prefix = MarkAt(j - active_idx)
            /\ (\E k \in 1..Len(w) : w[k].prefix = "> ") <=> active_idx >= 0
            /\ active_idx >= 0 => w[active_idx - Smallest(J) + 1].prefix = "> "

C18_Witness ==
    /\ pc = "lib_result"
    /\ Len(view.lines) = 5
    /\ view.lines[3].prefix = "> "
    /\ view.lines[2].text # view.lines[3].text

(* C19: however the session leaves the render loop, the player is not      *)
(* running once the cleanup has finished: a player alive at loop exit has  *)
(* been sent terminate and then kill, one that had exited is left alone.   *)
C19_PlayerStopped ==
    pc = "stopped" =>
        /\ player = "exited"
        /\ calls \in {<<>>, <<"terminate", "kill">>}

----------------------------------------------------------------------------
(* The render loop once the player has exited, with no bound on the ticks  *)
(* or on the keys.  perf_counter() has no defined origin and the program   *)
(* reads it only in perf_counter() - start, so the readings are taken      *)
(* relative to the current instant: real time dt moves start back by dt    *)
(* and leaves clk.  The displayed offset plays no part in the control of   *)
(* the loop; it is followed up to MaxNudges nudges from --offset and held  *)
(* there beyond.  ups, downs, t0 and start0 are not kept.                  *)

LiveFile == <<RawLine(<<Tag(0, 0, <<5>>)>>, "la")>>

InitLive ==
    /\ pc = "sample"
    /\ raw = LiveFile
    /\ arg_offset \in Offsets
    /\ lyrics = parse_lrc(raw)
    /\ player = "exited"
    /\ clk = Boot
    /\ start = ClockStart(clk, arg_offset)
    /\ offset = arg_offset
    /\ now = 0
    /\ active_idx = -1
    /\ view = NoView
    /\ ch = NO_KEY
    /\ ups = 0
    /\ downs = 0
    /\ t0 = 0
    /\ start0 = 0
    /\ calls = <<>>
    /\ err = ""

Held(o) ==
    LET lim == NUDGE * MaxNudges
    IN  IF o > arg_offset + lim THEN arg_offset + lim
        ELSE IF o < arg_offset - lim THEN arg_offset - lim
        ELSE o

(* ch = stdscr.getch() and the key handling, any number of nudges *)
LiveInput ==
    /\ pc = "input"
    /\ \E ev \in KeyEvents :
          /\ ch' = KeyOf(ev)
          /\ IF ch' # NO_KEY /\ IsQuit(ch')
             THEN /\ pc' = "fin_poll"
                  /\ UNCHANGED <<offset, start>>
             ELSE /\ pc' = "poll"
                  /\ offset' = Held(NudgeOffset(offset, ch'))
                  /\ start' = NudgeStart(start, ch')
    /\ UNCHANGED <<raw, arg_offset, lyrics, player, clk, now, active_idx, view,
                   ups, downs, t0, start0, calls, err>>

(* time.sleep(0.02), and the rest of the real time of the tick *)
LiveSleep ==
    /\ pc = "sleep"
    /\ \E dt \in TickTimes : start' = start - dt
    /\ pc' = "sample"
    /\ UNCHANGED <<raw, arg_offset, lyrics, player, clk, offset, now, active_idx,
                   view, ch, ups, downs, t0, start0, calls, err>>

NextLive ==
    \/ Sample
    \/ Draw
    \/ LiveInput
    \/ Poll
    \/ LiveSleep
    \/ FinPoll

(* One thread runs the steps in order and each of them returns: getch      *)
(* waits 50 ms at most, the sleeps are finite.                             *)
SpecLive ==
    /\ InitLive
    /\ [][NextLive]_vars
    /\ WF_vars(Sample)
    /\ WF_vars(Draw)
    /\ WF_vars(LiveInput)
    /\ WF_vars(Poll)
    /\ WF_vars(LiveSleep)
    /\ WF_vars(FinPoll)

(* C20 as stated: once the player has exited the loop eventually reaches   *)
(* Stopped, for every stream of user input, nudge-down in every tick       *)
(* included.                                                               *)
C20_AsStated == (player = "exited" /\ LoopState = "Running") ~> (pc = "stopped")

(* C20, amended: once the player has exited the loop eventually reaches    *)
(* Stopped for every stream of user input in which the nudge-down events   *)
(* eventually cease.                                                       *)
C20_StopsWhenDownsCease == (<>[](ch # KEY_DOWN)) => <>(pc = "stopped")

C20_Witness ==
    /\ pc = "stopped"
    /\ err = ""
    /\ ch = KEY_X
    /\ offset = arg_offset - 3 * NUDGE
    /\ now > last_stamp + GRACE

====
